---- MODULE Spec2Model ----
(***************************************************************************)
(* Model of web/Server.ts of nodejs-poolController: the WebServer registry *)
(* of ProtoServer handles, the interface bridges with their hot-reloaded   *)
(* binding files, and the operations that drive them.                      *)
(***************************************************************************)
EXTENDS Integers, Sequences, FiniteSets, TLC

\* ------------------------------------------------------------------ bounds
MaxCalls   == 4   \* calls of init, updateServerInterface and stopAsync together
MaxMtime   == 2   \* ticks of the file system's modification clock
MaxPending == 1   \* change notifications queued and not yet handled
MaxQueries == 3   \* discovery queries pending in one MdnsServer
MaxAnswers == 2   \* answer records in one response packet
MaxOptions == 2   \* option names a base context or a binding file may set
MaxStops   == 3   \* stopAsync calls on one handle
MaxNics    == 2   \* addresses os.networkInterfaces() lists
MaxQuestions == 2 \* questions in one inbound query packet

\* ------------------------------------------------------------ configuration
NoId      == 0            \* typeof c.uuid === 'undefined'
Undefined == 0            \* an emptied slot of _servers
NoBinding == "undefined"  \* this.bindings before the first successful load
NoName    == "undefined"  \* bindings.context.mdnsDiscovery when the file sets none

\* Keys of cfg.servers and cfg.interfaces in their enumeration order.
ServerKeys     == <<"http", "mdns">>
InterfaceNames == <<"ifA", "ifB">>
Entries        == {"http", "mdns", "ifA", "ifB"}
InterfaceSet   == {InterfaceNames[i] : i \in 1..Len(InterfaceNames)}
ServerSet      == {ServerKeys[i] : i \in 1..Len(ServerKeys)}

\* c.type of each interface entry; "http" means HttpInterfaceServer.
InterfaceType(n) == IF n = "ifA" THEN "influx" ELSE "http"
\* c.fileName of each interface entry (every entry names a file here).
HasFileName(n) == TRUE

\* The class a handle is an instance of.
ServerVariant(s)    == s
InterfaceVariant(n) == IF InterfaceType(n) = "http" THEN "httpIf" ELSE InterfaceType(n)
BridgeVariants      == {"httpIf", "influx", "mqtt"}

\* Ids already persisted in the configuration file at start.
PersistedId(e) == CASE e = "http" -> 1 [] e = "mdns" -> 2 [] e = "ifA" -> 3 [] OTHER -> 4
FirstFreshId   == Cardinality(Entries) + 1

VARIABLES
  cfg,        \* config section 'web': entry -> [uuid, enabled]
  uuidCtr,    \* the next value utils.uuid() returns
  handles,    \* heap of ProtoServer objects; a handle's identity is its index
  servers,    \* WebServer._servers: handle ids, or Undefined
  files,      \* binding file of each interface: [exists, content, mtime]
  notifs,     \* queued 'change' events per handle (fs.watch callbacks to run)
  tasks,      \* updateServerInterface calls suspended at await srv.stopAsync()
  stopTask,   \* the WebServer.stopAsync call in progress, if any
  counts,     \* how often each bounded operation has been called
  notifLog,   \* history: per binding file, the last two change notifications handled
  lastOp,     \* history: the registry operation that ran last, and its outcome
  mdnsLog,    \* history: the discovery operation that ran last, and its outcome
  merge,      \* one loadBindings call seen at the level of option values
  rem,        \* the peer bridge (REMInterfaceServer) and its handshake
  call        \* one call of a method that depends on its arguments and receiver only

\* The variables the registry and file-watch operations leave alone.
extVars == <<mdnsLog, merge, rem, call>>

\* The registry, its handles and the binding files.
regVars == <<cfg, uuidCtr, handles, servers, files, notifs, tasks, stopTask,
             counts, notifLog, lastOp>>

vars == <<regVars, extVars>>

\* ------------------------------------------------------------ binding files
FileContents == {"bad", "docA", "docB"}
NoFile == [exists |-> FALSE, content |-> "bad", mtime |-> 0]

\* JSON.parse(fs.readFileSync(...)): throws on malformed content.
ParseOk(content) == content # "bad"

\* context.mdnsDiscovery of each well-formed document.
MdnsDiscovery(content) == IF content = "docB" THEN "svc" ELSE NoName

\* ------------------------------------------------------------------ handles
\* listen is the state of HttpServer.server's listening socket: "none" before
\* listen() is called, then "pending", then "bound" or "failed".
\* target is context.options.host/port of the installed binding: "file" as
\* loaded, or the text of the discovery answer written over it.  server,
\* queries and listeners are MdnsServer.server, MdnsServer.queries and the
\* 'mdnsResponse' listeners of MdnsServer.mdnsEmitter (the bridges that own them).
NewHandle(variant, name) ==
  [variant |-> variant, name |-> name, uuid |-> NoId, isRunning |-> FALSE,
   bindings |-> NoBinding, target |-> NoBinding, fileTime |-> 0, isLoading |-> FALSE,
   watchers |-> 0, server |-> FALSE, queries |-> <<>>, listeners |-> <<>>,
   live |-> FALSE, listen |-> "none"]

\* loadBindings(cfg): the handle after the call and the value returned.
LoadBindings(h, f) ==
  LET h1 == [h EXCEPT !.isLoading = TRUE]
  IN  IF f.exists
      THEN IF ParseOk(f.content)
           THEN [h |-> [h1 EXCEPT !.bindings = f.content, !.target = "file",
                                  !.isRunning = TRUE,
                                  !.isLoading = FALSE, !.fileTime = f.mtime],
                 ret |-> TRUE]
           ELSE [h |-> [h1 EXCEPT !.isRunning = FALSE, !.isLoading = FALSE],
                 ret |-> FALSE]
      ELSE [h |-> h1, ret |-> FALSE]

\* webApp.mdnsServer as a bridge sees it: whether a MdnsServer is registered
\* and whether its server member is set.
NoMdns == [found |-> FALSE, server |-> FALSE]

\* The discovery lookup of HttpInterfaceServer.initBindings after the load:
\* whether queryMdns is called, whether it raises (this.server is undefined on
\* a disabled MdnsServer) and whether the 'mdnsResponse' listener is added.
Lookup(h, srv) ==
  LET asks == /\ h.variant = "httpIf" /\ h.bindings # NoBinding
              /\ MdnsDiscovery(h.bindings) # NoName /\ srv.found
  IN  [asks |-> asks, raises |-> asks /\ ~srv.server, listens |-> asks /\ srv.server,
       name |-> IF h.bindings = NoBinding THEN NoName ELSE MdnsDiscovery(h.bindings)]

\* initBindings(cfg): fs.watch throws when the file is missing; the http
\* variant reads this.bindings.context after the load, the others do not.
InitBindings(h, f, srv) ==
  IF ~f.exists
  THEN [h |-> h, ret |-> FALSE]
  ELSE LET h1 == [h EXCEPT !.watchers = @ + 1]
           r  == LoadBindings(h1, f)
       IN  IF h.variant = "httpIf" /\ r.h.bindings = NoBinding
           THEN [h |-> r.h, ret |-> FALSE]
           ELSE [h |-> r.h, ret |-> ~Lookup(r.h, srv).raises]

\* init(cfg) of each variant.  live records that the handle was initialised
\* with enabled = true and has not been stopped since.
HandleInit(h, c, hasFileName, f, srv) ==
  LET h0 == [h EXCEPT !.uuid = c.uuid, !.live = IF c.enabled THEN TRUE ELSE @]
  IN  IF ~c.enabled THEN h0
      ELSE IF h.variant = "http"
           THEN [h0 EXCEPT !.listen = "pending", !.isRunning = TRUE]
      ELSE IF h.variant = "mdns" THEN [h0 EXCEPT !.server = TRUE, !.isRunning = TRUE]
      ELSE IF h.variant \in BridgeVariants
           THEN IF hasFileName
                THEN LET r == InitBindings(h0, f, srv)
                     IN  IF r.ret THEN [r.h EXCEPT !.isRunning = TRUE] ELSE r.h
                ELSE h0
      ELSE h0

\* The lookup one init(cfg) call performs, if it gets as far as the lookup.
InitLookup(h, c, hasFileName, f, srv) ==
  IF c.enabled /\ h.variant \in BridgeVariants /\ hasFileName /\ f.exists
  THEN Lookup(LoadBindings(h, f).h, srv)
  ELSE Lookup(NewHandle(h.variant, h.name), srv)

\* stopAsync() of each variant: none of them clears isRunning or closes the
\* file watch, and each catches its own errors.
HandleStop(h) == [h EXCEPT !.live = FALSE]

\* ----------------------------------------------------------------- registry
\* The registry world threaded through the synchronous loops.
World == [cfg |-> cfg, uuidCtr |-> uuidCtr, handles |-> handles, servers |-> servers]

\* A variant that draws a fresh id whether or not the entry has one.
AssignUuidAlways(W, e) ==
  [W EXCEPT !.cfg[e].uuid = W.uuidCtr, !.uuidCtr = @ + 1]

\* if (typeof c.uuid === 'undefined') { c.uuid = utils.uuid(); config.setSection(...) }
AssignUuid(W, e) ==
  IF W.cfg[e].uuid = NoId
  THEN [W EXCEPT !.cfg[e].uuid = W.uuidCtr, !.uuidCtr = @ + 1]
  ELSE W

\* get mdnsServer(): the first registered MdnsServer, if any (instanceof is
\* false, and raises nothing, on an emptied slot).
RECURSIVE MdnsFrom(_, _, _)
MdnsFrom(S, H, i) ==
  IF i > Len(S) THEN Undefined
  ELSE IF S[i] # Undefined /\ H[S[i]].variant = "mdns" THEN S[i]
  ELSE MdnsFrom(S, H, i + 1)

MdnsServerOf(S, H) == MdnsFrom(S, H, 1)

SeenMdns(S, H) ==
  IF MdnsServerOf(S, H) = Undefined THEN NoMdns
  ELSE [found |-> TRUE, server |-> H[MdnsServerOf(S, H)].server]

\* MdnsServer.queryMdns(query) up to this.server.query: indexOf compares object
\* identities.  obj 0 marks the object a bridge has just built for the call,
\* which is in no list yet; other numbers name objects callers hold on to.
QueryMdns(m, q) ==
  IF q.obj # 0 /\ \E i \in DOMAIN m.queries : m.queries[i] = q
  THEN m
  ELSE [m EXCEPT !.queries = Append(@, q)]

\* The effect of the lookup lk of bridge id on the registered MdnsServer.
ApplyLookup(W, id, lk) ==
  IF ~lk.asks THEN W
  ELSE [W EXCEPT !.handles[MdnsServerOf(W.servers, W.handles)] =
          LET m1 == QueryMdns(@, [name |-> lk.name, obj |-> 0])
          IN  IF lk.listens THEN [m1 EXCEPT !.listeners = Append(@, id)] ELSE m1]

\* One iteration of the loop of WebServer.init over cfg.servers.
InitServer(W, s) ==
  LET W1 == AssignUuid(W, s)
      h  == HandleInit(NewHandle(ServerVariant(s), s), W1.cfg[s], FALSE, NoFile, NoMdns)
  IN  [W1 EXCEPT !.handles = Append(@, h), !.servers = Append(@, Len(W1.handles) + 1)]

\* new ...InterfaceServer(c.name, type); int.init(c); this._servers.push(int)
PushInterface(W, F, n) ==
  LET srv == SeenMdns(W.servers, W.handles)
      h0  == NewHandle(InterfaceVariant(n), n)
      h   == HandleInit(h0, W.cfg[n], HasFileName(n), F[n], srv)
      lk  == InitLookup(h0, W.cfg[n], HasFileName(n), F[n], srv)
      id  == Len(W.handles) + 1
  IN  ApplyLookup([W EXCEPT !.handles = Append(@, h), !.servers = Append(@, id)], id, lk)

\* A variant without "if (!c.enabled) continue".
InitInterfaceNoSkip(W, F, n) == PushInterface(AssignUuid(W, n), F, n)

\* One iteration of the loop of initInterfaces.
InitInterface(W, F, n) ==
  LET W1 == AssignUuid(W, n)
  IN  IF ~W1.cfg[n].enabled THEN W1 ELSE PushInterface(W1, F, n)

RECURSIVE InitServers(_, _)
InitServers(W, i) ==
  IF i > Len(ServerKeys) THEN W ELSE InitServers(InitServer(W, ServerKeys[i]), i + 1)

RECURSIVE InitInterfaces(_, _, _, _)
InitInterfaces(W, F, names, i) ==
  IF i > Len(names) THEN W ELSE InitInterfaces(InitInterface(W, F, names[i]), F, names, i + 1)

\* WebServer.init()
WebServerInit(W, F) == InitInterfaces(InitServers(W, 1), F, InterfaceNames, 1)


Idle == [active |-> FALSE]

\* ------------------------------------------------------------------ lookups
\* findServerByGuid: Array.find evaluates elem.uuid on every slot up to the
\* match, which throws a TypeError on an emptied slot.
RECURSIVE FindFrom(_, _, _, _)
FindFrom(S, H, uuid, i) ==
  IF i > Len(S) THEN [throws |-> FALSE, id |-> Undefined]
  ELSE IF S[i] = Undefined THEN [throws |-> TRUE, id |-> Undefined]
  ELSE IF H[S[i]].uuid = uuid THEN [throws |-> FALSE, id |-> S[i]]
  ELSE FindFrom(S, H, uuid, i + 1)

FindServerByGuid(S, H, uuid) == FindFrom(S, H, uuid, 1)

Splice(S, i) == SubSeq(S, 1, i - 1) \o SubSeq(S, i + 1, Len(S))

\* removeServerByGuid: the index advances after a splice as well.
RECURSIVE RemoveFrom(_, _, _, _)
RemoveFrom(S, H, uuid, i) ==
  IF i > Len(S) THEN [throws |-> FALSE, servers |-> S]
  ELSE IF S[i] = Undefined THEN [throws |-> TRUE, servers |-> S]
  ELSE IF H[S[i]].uuid = uuid THEN RemoveFrom(Splice(S, i), H, uuid, i + 1)
  ELSE RemoveFrom(S, H, uuid, i + 1)

RemoveServerByGuid(S, H, uuid) == RemoveFrom(S, H, uuid, 1)

\* config.setInterface(obj): merges obj into the interface entry that has
\* obj.uuid and returns that one entry, keyed by its name.
SetInterface(C, n, obj) == [C EXCEPT ![n].enabled = obj.enabled]

\* --------------------------------------------------------------- operations
WebInit ==
  /\ counts.calls < MaxCalls
  /\ LET W == WebServerInit(World, files)
     IN  /\ cfg' = W.cfg
         /\ uuidCtr' = W.uuidCtr
         /\ handles' = W.handles
         /\ servers' = W.servers
         /\ lastOp' = [op |-> "init",
                       created |-> (Len(handles) + 1)..Len(W.handles),
                       enabled |-> {e \in Entries : W.cfg[e].enabled}]
  /\ counts' = [counts EXCEPT !.init = @ + 1, !.calls = @ + 1]
  /\ UNCHANGED <<files, notifs, tasks, stopTask, notifLog>>
  /\ UNCHANGED extVars

\* updateServerInterface(obj) up to its first await, or to its end when it
\* does not await.  The caller sends the entry n back with enabled = b.
\* overlap is history: whether the call ran while another call for the same
\* id was suspended.
UpdateBegin(n, b) ==
  /\ counts.init > 0
  /\ counts.calls < MaxCalls
  /\ cfg[n].uuid # NoId
  /\ counts' = [counts EXCEPT !.calls = @ + 1]
  /\ LET obj   == [uuid |-> cfg[n].uuid, enabled |-> b]
         cfg1  == SetInterface(cfg, n, obj)
         found == FindServerByGuid(servers, handles, obj.uuid)
         meets == \E k \in DOMAIN tasks : tasks[k].obj.uuid = obj.uuid
         done  == [op |-> "update", uuid |-> obj.uuid, enabled |-> b, overlapped |-> meets]
     IN  IF found.throws
         THEN /\ cfg' = cfg1
              /\ lastOp' = [done EXCEPT !.op = "updateRejected"]
              /\ UNCHANGED <<uuidCtr, handles, servers, tasks>>
         ELSE IF found.id # Undefined
         THEN /\ cfg' = cfg1
              /\ handles' = [handles EXCEPT ![found.id] = HandleStop(@)]
              /\ tasks' = Append([k \in DOMAIN tasks |->
                                    IF tasks[k].obj.uuid = obj.uuid
                                    THEN [tasks[k] EXCEPT !.overlap = TRUE] ELSE tasks[k]],
                                 [obj |-> obj, name |-> n, srv |-> found.id,
                                  overlap |-> meets])
              /\ lastOp' = [op |-> "updateAwait"]
              /\ UNCHANGED <<uuidCtr, servers>>
         ELSE LET W == IF b THEN InitInterfaces([World EXCEPT !.cfg = cfg1], files, <<n>>, 1)
                            ELSE [World EXCEPT !.cfg = cfg1]
              IN  /\ cfg' = W.cfg
                  /\ uuidCtr' = W.uuidCtr
                  /\ handles' = W.handles
                  /\ servers' = W.servers
                  /\ lastOp' = done
                  /\ UNCHANGED tasks
  /\ UNCHANGED <<files, notifs, stopTask, notifLog>>
  /\ UNCHANGED extVars

\* updateServerInterface after await srv.stopAsync() has settled.
UpdateResume(k) ==
  /\ k \in DOMAIN tasks
  /\ LET t == tasks[k]
         r == RemoveServerByGuid(servers, handles, t.obj.uuid)
         srv == SeenMdns(r.servers, handles)
         h == handles[t.srv]
         lk == InitLookup(h, t.obj, HasFileName(t.name), files[t.name], srv)
         W == [World EXCEPT !.servers = r.servers,
                            !.handles[t.srv] =
                               HandleInit(h, t.obj, HasFileName(t.name), files[t.name], srv)]
     IN  /\ servers' = r.servers
         /\ handles' = IF ~r.throws /\ t.obj.enabled
                       THEN ApplyLookup(W, t.srv, lk).handles
                       ELSE handles
         /\ lastOp' = [op |-> IF r.throws THEN "updateRejected" ELSE "update",
                       uuid |-> t.obj.uuid, enabled |-> t.obj.enabled,
                       overlapped |-> t.overlap]
         /\ tasks' = Splice(tasks, k)
  /\ UNCHANGED <<cfg, uuidCtr, files, notifs, stopTask, counts, notifLog>>
  /\ UNCHANGED extVars

\* A variant without the inner try/catch: the outer catch ends the loop.
NextAfterRaiseAbort(idx, n) == n + 1

\* The index WebServer.stopAsync goes on with after the inner catch has caught
\* an error raised while stopping slot idx of n.
NextAfterRaise(idx, n) == idx + 1

\* _servers[idx] = undefined; an index past the end lengthens the array.
RECURSIVE AssignSlot(_, _, _)
AssignSlot(S, i, v) ==
  IF i <= Len(S) THEN [S EXCEPT ![i] = v] ELSE AssignSlot(Append(S, Undefined), i, v)

\* The loop of WebServer.stopAsync from key idx on, up to its next await or
\* to its end.  The keys 1..n are those the array had when the loop started; a
\* key deleted meanwhile is not visited.
RECURSIVE StopLoop(_, _, _, _, _)
StopLoop(H, S, n, idx, log) ==
  IF idx > n THEN [done |-> TRUE, handles |-> H, idx |-> idx, log |-> log]
  ELSE IF idx > Len(S)
  THEN StopLoop(H, S, n, idx + 1, Append(log, [slot |-> idx, handle |-> Undefined, what |-> "absent"]))
  ELSE IF S[idx] = Undefined
  THEN StopLoop(H, S, n, NextAfterRaise(idx, n),
                Append(log, [slot |-> idx, handle |-> Undefined, what |-> "raised"]))
  ELSE [done |-> FALSE, handles |-> [H EXCEPT ![S[idx]] = HandleStop(@)], idx |-> idx,
        log |-> Append(log, [slot |-> idx, handle |-> S[idx], what |-> "stopped"])]

StopFinish(r, n) ==
  IF r.done
  THEN /\ stopTask' = Idle
       /\ lastOp' = [op |-> "stop", n |-> n, log |-> r.log]
  ELSE /\ stopTask' = [active |-> TRUE, n |-> n, idx |-> r.idx, log |-> r.log]
       /\ lastOp' = [op |-> "stopAwait"]

\* WebServer.stopAsync() up to its first await.
StopBegin ==
  /\ counts.init > 0
  /\ ~stopTask.active
  /\ counts.calls < MaxCalls
  /\ counts' = [counts EXCEPT !.calls = @ + 1]
  /\ LET r == StopLoop(handles, servers, Len(servers), 1, <<>>)
     IN  /\ handles' = r.handles
         /\ StopFinish(r, Len(servers))
  /\ UNCHANGED <<cfg, uuidCtr, servers, files, notifs, tasks, notifLog>>
  /\ UNCHANGED extVars

\* WebServer.stopAsync() after await serv.stopAsync() has settled.
StopResume ==
  /\ stopTask.active
  /\ LET S1 == AssignSlot(servers, stopTask.idx, Undefined)
         r  == StopLoop(handles, S1, stopTask.n, stopTask.idx + 1, stopTask.log)
     IN  /\ servers' = S1
         /\ handles' = r.handles
         /\ StopFinish(r, stopTask.n)
  /\ UNCHANGED <<cfg, uuidCtr, files, notifs, tasks, counts, notifLog>>
  /\ UNCHANGED extVars

\* emitToClients of each variant: what the call does with the event.
HandleEmitToClients(h) ==
  IF h.variant = "http"
  THEN IF h.isRunning THEN "delivered" ELSE "skipped"
  ELSE IF h.variant \in BridgeVariants
  THEN IF h.isRunning
       THEN IF h.bindings = NoBinding THEN "throw" ELSE "delivered"
       ELSE "skipped"
  ELSE "noop"

\* emitToChannel of each variant: only the HTTP servers override it.
HandleEmitToChannel(h) ==
  IF h.variant = "http"
  THEN IF h.isRunning THEN "delivered" ELSE "skipped"
  ELSE "noop"

\* The loop of WebServer.emitToClients / emitToChannel from slot i on.
RECURSIVE EmitLoop(_, _, _, _, _)
EmitLoop(H, S, chan, i, rec) ==
  IF i > Len(S) THEN rec
  ELSE IF S[i] = Undefined THEN [rec EXCEPT !.raised = TRUE]
  ELSE LET o == IF chan THEN HandleEmitToChannel(H[S[i]]) ELSE HandleEmitToClients(H[S[i]])
           rec1 == [rec EXCEPT !.invoked = @ \cup {S[i]}]
       IN  IF o = "throw"
           THEN [rec1 EXCEPT !.raised = TRUE, !.failed = @ \cup {S[i]}]
           ELSE EmitLoop(H, S, chan, i + 1,
                         IF o = "delivered" THEN [rec1 EXCEPT !.delivered = @ \cup {S[i]}]
                         ELSE rec1)

WebServerEmit(H, S, chan) ==
  EmitLoop(H, S, chan, 1, [op |-> "emit", chan |-> chan, invoked |-> {},
                           delivered |-> {}, failed |-> {}, raised |-> FALSE])

\* WebServer.emitToClients(evt) and WebServer.emitToChannel(channel, evt).
Emit(chan) ==
  /\ counts.init > 0
  /\ lastOp' = WebServerEmit(handles, servers, chan)
  /\ UNCHANGED <<cfg, uuidCtr, handles, servers, files, notifs, tasks, stopTask,
                 counts, notifLog>>
  /\ UNCHANGED extVars

\* ---------------------------------------------------------------- listening
\* server.listen(cfg.port, cfg.ip, callback) has bound the port: the callback logs.
ListenBound(h) ==
  /\ handles[h].variant = "http" /\ handles[h].listen = "pending"
  /\ handles' = [handles EXCEPT ![h].listen = "bound"]
  /\ lastOp' = [op |-> "listening", handle |-> h]
  /\ UNCHANGED <<cfg, uuidCtr, servers, files, notifs, tasks, stopTask, counts, notifLog>>
  /\ UNCHANGED extVars

\* The process has ended: no handle of it operates any more.
Exited(H) == [i \in DOMAIN H |-> [H[i] EXCEPT !.isRunning = FALSE, !.live = FALSE]]

\* The port cannot be bound: the server emits 'error'.  init registers no
\* 'error' listener on it, so the event is thrown as an uncaught exception,
\* which ends the process (fatal) unless a process-wide handler outside this
\* file takes it; in that case nothing of the handle is touched.
ListenError(h, fatal) ==
  /\ handles[h].variant = "http" /\ handles[h].listen = "pending"
  /\ LET H == [handles EXCEPT ![h].listen = "failed"]
     IN  handles' = IF fatal THEN Exited(H) ELSE H
  /\ lastOp' = [op |-> "listenError", handle |-> h, fatal |-> fatal,
                running |-> {g \in DOMAIN handles : g # h /\ handles[g].isRunning}
                              \cap {servers[i] : i \in DOMAIN servers}]
  /\ UNCHANGED <<cfg, uuidCtr, servers, files, notifs, tasks, stopTask, counts, notifLog>>
  /\ UNCHANGED extVars

\* ------------------------------------------------------------- file watches
\* The callbacks fs.watch has registered on the file of interface n: one per
\* initBindings call that found the file, in registration order.
RECURSIVE WatchersFrom(_, _, _)
WatchersFrom(H, n, i) ==
  IF i > Len(H) THEN <<>>
  ELSE (IF H[i].name = n /\ H[i].variant \in BridgeVariants
        THEN [k \in 1..H[i].watchers |-> i] ELSE <<>>) \o WatchersFrom(H, n, i + 1)

Watchers(H, n) == WatchersFrom(H, n, 1)

\* A variant that does not compare the modification times.
ShouldReloadAlways(h, mtime) == TRUE

\* Whether the watch callback goes on to loadBindings, having seen that no
\* load is in progress and having read the file's modification time.
ShouldReload(h, mtime) == mtime # h.fileTime

\* The callback given to fs.watch, run for one 'change' event.  f is the file
\* as fs.statSync finds it, g as fs.existsSync in loadBindings finds it.
WatchCallback(h, f, g) ==
  IF h.isLoading THEN [h |-> h, what |-> "busy"]
  ELSE IF ~f.exists THEN [h |-> h, what |-> "statThrows"]
  ELSE IF ~ShouldReload(h, f.mtime) THEN [h |-> h, what |-> "sameTime"]
  ELSE LET r == LoadBindings(h, g)
       IN  [h |-> r.h, what |-> IF r.ret THEN "loaded"
                                ELSE IF g.exists THEN "loadFailed" ELSE "noFile"]

\* Another process rewrites the watched binding file of interface n in place.  The
\* modification clock never runs backwards, and may not tick between writes.
FileWrite(n, content, m) ==
  /\ Watchers(handles, n) # <<>>
  /\ files[n].exists
  /\ m >= files[n].mtime
  /\ Len(notifs) + Len(Watchers(handles, n)) <= MaxPending
  /\ files' = [files EXCEPT ![n].content = content, ![n].mtime = m]
  /\ notifs' = notifs \o Watchers(handles, n)
  /\ UNCHANGED <<cfg, uuidCtr, handles, servers, tasks, stopTask, counts, notifLog, lastOp>>
  /\ UNCHANGED extVars

\* Another process deletes the watched binding file of interface n.
FileDelete(n) ==
  /\ Watchers(handles, n) # <<>>
  /\ files[n].exists
  /\ files' = [files EXCEPT ![n] = NoFile]
  /\ UNCHANGED <<cfg, uuidCtr, handles, servers, notifs, tasks, stopTask, counts, notifLog, lastOp>>
  /\ UNCHANGED extVars

\* The operating system reports a write with more than one 'change' event.
WatchDuplicate(n) ==
  /\ Watchers(handles, n) # <<>>
  /\ Len(notifs) + Len(Watchers(handles, n)) <= MaxPending
  /\ notifs' = notifs \o Watchers(handles, n)
  /\ UNCHANGED <<cfg, uuidCtr, handles, servers, files, tasks, stopTask, counts, notifLog, lastOp>>
  /\ UNCHANGED extVars

NoNotif == [handle |-> Undefined]

\* The event loop runs the watch callback for the oldest queued event.  The
\* file system is shared with other processes: one of them may delete the file
\* between the callback's statSync and the existsSync of loadBindings (gone).
WatchChange ==
  /\ notifs # <<>>
  /\ \E gone \in BOOLEAN :
     LET id == Head(notifs)
         h  == handles[id]
         f  == files[h.name]
         g  == IF gone THEN NoFile ELSE f
         r  == WatchCallback(h, f, g)
     IN  /\ gone => r.what = "noFile"
         /\ files' = IF gone THEN [files EXCEPT ![h.name] = NoFile] ELSE files
         /\ handles' = [handles EXCEPT ![id] = r.h]
         /\ notifLog' = [notifLog EXCEPT ![h.name] =
              <<@[2], [handle |-> id, seen |-> f.mtime, what |-> r.what,
                       changed |-> r.h.bindings # h.bindings,
                       hadBinding |-> h.bindings # NoBinding,
                       ranBefore |-> h.isRunning,
                       dispatches |-> HandleEmitToClients(r.h) = "delivered"]>>]
  /\ notifs' = Tail(notifs)
  /\ UNCHANGED <<cfg, uuidCtr, servers, tasks, stopTask, counts, lastOp>>
  /\ UNCHANGED extVars

\* ------------------------------------------------------------ binding merge
\* Option values; Absent marks an option the object does not set.
Absent       == 0
OptionNames  == 1..MaxOptions
OptionValues == {1, 2}
OptionMaps   == [OptionNames -> {Absent} \cup OptionValues]
NoOptions    == [k \in OptionNames |-> Absent]

\* extend(true, target, src) on two objects whose members are option values:
\* every member src sets is written over the target's.
Extend(target, src) ==
  [k \in OptionNames |-> IF src[k] # Absent THEN src[k] ELSE target[k]]

\* let ext = extend(true, {}, cfg.context.options, bindings), for a binding
\* file of the shape {context: {options}, events}: the members of the base
\* options are members of ext itself, next to the file's context.
ExtendedBindings(base, doc) ==
  [root |-> Extend(Extend(NoOptions, base), doc.root),
   context |-> [options |-> Extend(NoOptions, doc.context.options)]]

\* new HttpInterfaceBindings(cfg): an object that sets no option yet.
NewBindings == [root |-> NoOptions, context |-> [options |-> NoOptions]]

\* Object.assign(target, ext): each own member of ext replaces the target's
\* member of that name as a whole.
ObjectAssign(target, ext) ==
  [root |-> Extend(target.root, ext.root), context |-> ext.context]

\* The binding loadBindings installs for base options and file contents.
MergedBindings(base, doc) == ObjectAssign(NewBindings, ExtendedBindings(base, doc))

\* The binding files the merge is tried on: options under context.options,
\* none at the top level of the document.
MergeDocs == [root : {NoOptions}, context : [options : OptionMaps]]

NoMerge == [op |-> "none"]

\* loadBindings(cfg) for base options and a parsed document.
MergeLoad ==
  /\ merge.op = "input"
  /\ merge' = [merge EXCEPT !.op = "loaded", !.out = MergedBindings(merge.base, merge.doc)]
  /\ UNCHANGED <<regVars, mdnsLog, rem, call>>

\* ---------------------------------------------------------------- handshake
\* The peer bridge, the handle initInterfaces creates for an entry of type
\* 'rem', with the one handshake its init schedules.  promise is the promise
\* initConnection returns, tmr the secondary timer _tmr, listener the one-shot
\* '/checkemit' listener on the HTTP server's socket server, verify the
\* verification request.  result1, ackInTime (the acknowledgment came while
\* the timer was armed), verifyOkFirst (the verification reply had status 200
\* and came while the timer was armed and before any acknowledgment), acked,
\* listened and verifications are history.
PeerId == 1
\* The connection id the peer has issued to another bridge.
OtherId == 2
ConnectionIds == {PeerId, OtherId}
NoResult == [code |-> 0, error |-> "undefined", obj |-> FALSE]

NoRem ==
  [inited |-> FALSE, isRunning |-> FALSE, sock |-> "undefined",
   remoteConnectionId |-> NoId, pc |-> "idle", promise |-> "none", error |-> "none",
   tmr |-> "unset", listener |-> FALSE, verify |-> "none",
   result1 |-> NoResult, ackInTime |-> FALSE, verifyOkFirst |-> FALSE,
   acked |-> FALSE, listened |-> FALSE, verifications |-> 0,
   inits |-> 0, registrations |-> 0, everUp |-> FALSE, reconnected |-> FALSE,
   ackId |-> NoId, resolvedBy |-> "none", stopped |-> FALSE, lateSteps |-> {}]

\* What sendClientRequest returns: the status code (-1 when no response came:
\* timeout, send error or unresolved host, all of which set ret.error), the
\* error member (the parsed body of an error response, which is null for the
\* body "null"), and whether obj holds the parsed body of a 200 response.
Results ==
  {[code |-> 200, error |-> "undefined", obj |-> TRUE],
   [code |-> 200, error |-> "undefined", obj |-> FALSE],
   [code |-> 500, error |-> "error", obj |-> FALSE],
   [code |-> 500, error |-> "null", obj |-> FALSE],
   [code |-> -1, error |-> "error", obj |-> FALSE]}

\* result.error.message raises a TypeError when error is undefined or null.
ErrorMessageRaises(result) == result.error # "error"

\* if (result.status.code > 200 || result.status.code < 0)
Fails1(code) == code > 200 \/ code < 0

\* A variant that takes every final status for a failure.
Fails2Strict(code) == code >= 200 \/ code = -1

\* if (result.status.code > 200 || result.status.code === -1)
Fails2(code) == code > 200 \/ code = -1

\* A promise whose last resolve() or reject(err) wins.
SettleLast(r, outcome, err) ==
  IF r.promise \in {"pending", "resolved", "rejected"}
  THEN [r EXCEPT !.promise = outcome, !.error = err] ELSE r

\* resolve() and reject(err) settle the promise once; later calls do nothing.
Settle(r, outcome, err) ==
  IF r.promise = "pending" THEN [r EXCEPT !.promise = outcome, !.error = err] ELSE r

\* clearTimeout(_tmr)
ClearTimer(r) == IF r.tmr = "armed" THEN [r EXCEPT !.tmr = "cleared"] ELSE r

\* get isConnected(): sockClient !== 'undefined' && sockClient.connected; the
\* comparison is with a string, so an unset sockClient is dereferenced.
IsConnected(r) ==
  IF r.sock = "undefined" THEN "raises" ELSE IF r.sock = "up" THEN "true" ELSE "false"

\* findServer(name): Array.find evaluates elem.name on every slot up to the match.
RECURSIVE FindNameFrom(_, _, _, _)
FindNameFrom(S, H, name, i) ==
  IF i > Len(S) THEN [throws |-> FALSE, id |-> Undefined]
  ELSE IF S[i] = Undefined THEN [throws |-> TRUE, id |-> Undefined]
  ELSE IF H[S[i]].name = name THEN [throws |-> FALSE, id |-> S[i]]
  ELSE FindNameFrom(S, H, name, i + 1)

FindServer(S, H, name) == FindNameFrom(S, H, name, 1)

\* Whether srv.addListenerOnce can be called on webApp.findServer('http'): the
\* handle is found and its sockServer is set, which HttpServer.init does in
\* the branch that sets isRunning.
CanListen(S, H) ==
  LET f == FindServer(S, H, "http")
  IN  ~f.throws /\ f.id # Undefined /\ H[f.id].isRunning

\* init(cfg): initSockets opens the socket client and sets isRunning; the
\* handshake is scheduled for five seconds later.
RemInit(enabled) ==
  /\ counts.init > 0
  /\ ~rem.inited
  /\ rem' = IF enabled
            THEN [rem EXCEPT !.inited = TRUE, !.sock = "down", !.isRunning = TRUE,
                             !.pc = "startDelay", !.inits = @ + 1]
            ELSE [rem EXCEPT !.inited = TRUE]
  /\ UNCHANGED <<regVars, mdnsLog, merge, call>>

\* History: the steps of the handshake that ran after stopAsync.
Late(r, steps) == IF r.stopped THEN [r EXCEPT !.lateSteps = @ \cup steps] ELSE r

\* stopAsync(): destroys the agent and the socket client.  The timers init and
\* initConnection have set are not kept anywhere and are not cleared.
RemStop ==
  /\ rem.inited /\ ~rem.stopped
  /\ rem' = [rem EXCEPT !.stopped = TRUE,
                        !.sock = IF @ = "undefined" THEN @ ELSE "down"]
  /\ UNCHANGED <<regVars, mdnsLog, merge, call>>

\* A variant whose 'connect' handler starts the handshake over after a failure.
OnConnectRetry(r) == IF r.promise = "rejected" THEN [r EXCEPT !.pc = "startDelay"] ELSE r

\* The 'connect' and 'reconnect' handlers of the socket client: they log, and
\* 'connect' adds an empty data listener; the handshake is left alone.
OnConnect(r) == r

\* The socket client connects to the peer, or reconnects.
SockConnect ==
  /\ rem.sock = "down" /\ ~rem.stopped
  /\ rem' = [OnConnect(rem) EXCEPT !.sock = "up", !.everUp = TRUE,
                                   !.reconnected = @ \/ (rem.everUp /\ rem.promise = "rejected")]
  /\ UNCHANGED <<regVars, mdnsLog, merge, call>>

\* The socket client loses its connection.
SockDisconnect ==
  /\ rem.sock = "up"
  /\ rem' = [rem EXCEPT !.sock = "down"]
  /\ UNCHANGED <<regVars, mdnsLog, merge, call>>

\* The start delay is over: initConnection creates the promise and sends the
\* registration request (Phase 1).
InitConnection ==
  /\ rem.pc = "startDelay"
  /\ rem' = Late([rem EXCEPT !.pc = "phase1", !.promise = "pending",
                             !.registrations = @ + 1], {"register"})
  /\ UNCHANGED <<regVars, mdnsLog, merge, call>>

\* await putApiService('/config/checkconnection/') returns result.
CheckConnectionReply(result) ==
  /\ rem.pc = "phase1"
  /\ LET r == [rem EXCEPT !.result1 = result]
     IN  rem' = IF Fails1(result.code)
                THEN IF ErrorMessageRaises(result)
                     THEN [r EXCEPT !.pc = "over"]
                     ELSE [Settle(r, "rejected", "phase1") EXCEPT !.pc = "over"]
                ELSE IF ~result.obj
                THEN [r EXCEPT !.pc = "over"]
                ELSE Late([r EXCEPT !.remoteConnectionId = PeerId, !.pc = "settle"],
                          {"setId"})
  /\ UNCHANGED <<regVars, mdnsLog, merge, call>>

\* The settle delay is over (Phase 2): the secondary timer is armed, the
\* acknowledgment listener registered and the verification request sent.  When
\* the HTTP server cannot take the listener the TypeError is caught, the catch
\* raises on result.error.message, and only the timer is left.
CheckEmitStart ==
  /\ rem.pc = "settle"
  /\ rem' = IF CanListen(servers, handles)
            THEN Late([rem EXCEPT !.pc = "phase2", !.tmr = "armed", !.listener = TRUE,
                                  !.listened = TRUE, !.verify = "sent",
                                  !.verifications = @ + 1], {"listen", "verify"})
            ELSE [rem EXCEPT !.pc = "phase2", !.tmr = "armed"]
  /\ UNCHANGED <<regVars, mdnsLog, merge, call>>

\* A '/checkemit' event reaches the one-shot listener.  id is the connection
\* id the event's data belongs to; the listener is registered under the event
\* name alone and its callback does not read the data.
CheckEmitAck(id) ==
  /\ rem.listener
  /\ rem' = [Settle(ClearTimer(rem), "resolved", "none") EXCEPT
               !.listener = FALSE, !.acked = TRUE,
               !.ackInTime = @ \/ rem.tmr = "armed",
               !.ackId = id,
               !.resolvedBy = IF rem.promise = "pending" THEN "ack" ELSE @]
  /\ UNCHANGED <<regVars, mdnsLog, merge, call>>

\* await putApiService('/config/checkemit') returns result.
CheckEmitReply(result) ==
  /\ rem.verify = "sent"
  /\ LET r == [rem EXCEPT !.verify = "replied",
                          !.verifyOkFirst =
                             @ \/ (result.code = 200 /\ rem.tmr = "armed" /\ ~rem.acked)]
     IN  rem' = IF Fails2(result.code)
                THEN IF ErrorMessageRaises(result) THEN r
                     ELSE Settle(r, "rejected", "verify")
                ELSE [Settle(ClearTimer(r), "resolved", "none") EXCEPT
                        !.resolvedBy = IF rem.promise = "pending" THEN "verify" ELSE @]
  /\ UNCHANGED <<regVars, mdnsLog, merge, call>>

\* The secondary timer _tmr expires.
CheckEmitTimeout ==
  /\ rem.tmr = "armed"
  /\ rem' = [Settle(rem, "rejected", "commcheck") EXCEPT !.tmr = "fired"]
  /\ UNCHANGED <<regVars, mdnsLog, merge, call>>

\* ---------------------------------------------------------------- discovery
\* Answer records of a response packet.  text is the string new URL() is given
\* for the record: "object" for the plain records the discovery library
\* decodes, which is no URL, "url" for a record whose string form is one.
Answers == [name : {"svc", "other"}, text : {"object", "url"}]
Packets == UNION {[1..k -> Answers] : k \in 0..MaxAnswers}

\* Query objects other callers of queryMdns hold on to.
QueryPool == [name : {"svc", "other"}, obj : {1, 2}]

\* new URL(response)
UrlParses(a) == a.text # "object"

\* mdnsEmitter.emit('mdnsResponse', answer): the listeners run in the order
\* they were added; each writes host and port of its bridge's installed
\* binding, and a listener that raises ends the emit.
RECURSIVE EmitMdnsResponse(_, _, _, _)
EmitMdnsResponse(H, L, a, i) ==
  IF i > Len(L) THEN [handles |-> H, raised |-> FALSE]
  ELSE IF ~UrlParses(a) \/ H[L[i]].bindings = NoBinding
  THEN [handles |-> H, raised |-> TRUE]
  ELSE EmitMdnsResponse([H EXCEPT ![L[i]].target = a.text], L, a, i + 1)

\* self.queries.filter(value => value.name !== query.name ? arr : undefined)
KeepsQuery(value, name) == value.name # name
FilterQueries(Q, name) == SelectSeq(Q, LAMBDA value : KeepsQuery(value, name))

\* responses.answers.forEach for the pending query q, the qi-th of the list
\* the outer loop walks.  notes records each emit.
RECURSIVE AnswersLoop(_, _, _, _, _, _, _)
AnswersLoop(H, m, q, qi, packet, j, notes) ==
  IF j > Len(packet) THEN [handles |-> H, notes |-> notes, raised |-> FALSE]
  ELSE IF packet[j].name # q.name THEN AnswersLoop(H, m, q, qi, packet, j + 1, notes)
  ELSE LET e == EmitMdnsResponse(H, H[m].listeners, packet[j], 1)
           notes1 == Append(notes, [query |-> qi, answer |-> j])
       IN  IF e.raised THEN [handles |-> e.handles, notes |-> notes1, raised |-> TRUE]
           ELSE AnswersLoop([e.handles EXCEPT ![m].queries = FilterQueries(@, q.name)],
                            m, q, qi, packet, j + 1, notes1)

\* self.queries.forEach: walks the list the handler started with, also after
\* self.queries has been replaced by a filtered copy.
RECURSIVE QueriesLoop(_, _, _, _, _, _)
QueriesLoop(H, m, Q0, i, packet, notes) ==
  IF i > Len(Q0) THEN [handles |-> H, notes |-> notes, raised |-> FALSE]
  ELSE LET r == AnswersLoop(H, m, Q0[i], i, packet, 1, notes)
       IN  IF r.raised THEN r ELSE QueriesLoop(r.handles, m, Q0, i + 1, packet, r.notes)

\* The 'response' handler MdnsServer.init registers, run for one packet.
MdnsResponse(m, packet) ==
  /\ handles[m].variant = "mdns" /\ handles[m].server /\ handles[m].live
  /\ LET r == QueriesLoop(handles, m, handles[m].queries, 1, packet, <<>>)
     IN  /\ handles' = r.handles
         /\ mdnsLog' = [op |-> "response", server |-> m, packet |-> packet,
                        before |-> handles[m].queries, after |-> r.handles[m].queries,
                        notes |-> r.notes, raised |-> r.raised]
  /\ UNCHANGED <<cfg, uuidCtr, servers, files, notifs, tasks, stopTask, counts,
                 notifLog, lastOp, merge, rem, call>>

\* Another module calls webApp.mdnsServer.queryMdns(q).
QueryMdnsCall(q) ==
  /\ MdnsServerOf(servers, handles) # Undefined
  /\ Len(handles[MdnsServerOf(servers, handles)].queries) < MaxQueries
  /\ handles' = [handles EXCEPT ![MdnsServerOf(servers, handles)] = QueryMdns(@, q)]
  /\ mdnsLog' = [op |-> "query"]
  /\ UNCHANGED <<cfg, uuidCtr, servers, files, notifs, tasks, stopTask, counts,
                 notifLog, lastOp, merge, rem, call>>

\* ----------------------------------------------------------------- stopping
\* stopAsync() of every ProtoServer variant, on the members it reads.  server
\* is the member the variant closes (SsdpServer.server, MdnsServer.server,
\* MqttInterfaceServer.bindings, REMInterfaceServer.sockClient): "undefined"
\* until an enabled init sets it, then "open", then "closed".
StopVariants ==
  {"http", "https", "http2", "ssdp", "mdns", "httpIf", "influx", "mqtt", "rem"}

\* The variants whose stopAsync closes a member.
Closers == {"ssdp", "mdns", "mqtt", "rem"}

\* The handles stopAsync can be called on: never initialised or initialised
\* disabled (nothing set), initialised enabled (the member set), running or not yet.
StopHandles ==
  {h \in [variant : StopVariants, server : {"undefined", "open"}, isRunning : BOOLEAN] :
     h.isRunning => h.server = "open"}

\* The statements inside the try block.  this.server.stop() on an undefined
\* member is a TypeError; the other closers test typeof first.  again is
\* whether the library raises when asked to close what is closed already.
StopBody(h, again) ==
  IF h.variant \notin Closers THEN [h |-> h, threw |-> FALSE]
  ELSE IF h.server = "undefined" THEN [h |-> h, threw |-> h.variant = "ssdp"]
  ELSE IF h.server = "closed" THEN [h |-> h, threw |-> again]
  ELSE [h |-> [h EXCEPT !.server = "closed"], threw |-> FALSE]

\* A stopAsync without the try/catch: what the body throws leaves the call.
EscapesUncaught(threw) == threw

\* try { ... } catch (err) { logger.error(...) }: nothing leaves the call.
Escapes(threw) == FALSE

StopAsync(h, again) ==
  LET r == StopBody(h, again)
  IN  [h |-> r.h, logged |-> r.threw, raised |-> Escapes(r.threw)]

\* One more stopAsync() on the handle of call.
StopCall(again) ==
  /\ call.op \in {"handle", "stop"}
  /\ call.stops < MaxStops
  /\ LET r == StopAsync(call.h, again)
     IN  call' = [op |-> "stop", h |-> r.h, stops |-> call.stops + 1,
                  logged |-> r.logged, raised |-> r.raised,
                  once |-> IF call.stops = 0 THEN r.h ELSE call.once]
  /\ UNCHANGED <<regVars, mdnsLog, merge, rem>>

\* ---------------------------------------------------------------- addresses
\* One address os.networkInterfaces() lists.  mac is "zero" for
\* 00:00:00:00:00:00, "zeroRun" for a hardware address that is not zero but
\* has three zero octets in a row (00:00:00:aa:bb:cc), "plain" for any other.
Macs == {"zero", "zeroRun", "plain"}
Addresses == [internal : BOOLEAN, family : {"IPv4", "IPv6"}, mac : Macs]

\* The addresses in the order the two loops of getInterface enumerate them.
NicLists == UNION {[1..k -> Addresses] : k \in 0..MaxNics}

\* addr.mac.indexOf('00:00:00:') < 0
MacAccepted(mac) == mac = "plain"

\* private family = 'IPv4'
Family == "IPv4"

\* getInterface(): the position of the address returned, Undefined for none.
RECURSIVE GetInterfaceFrom(_, _)
GetInterfaceFrom(L, i) ==
  IF i > Len(L) THEN Undefined
  ELSE IF ~L[i].internal /\ MacAccepted(L[i].mac) /\ L[i].family = Family THEN i
  ELSE GetInterfaceFrom(L, i + 1)

GetInterface(L) == GetInterfaceFrom(L, 1)

\* ip(): the address member of the entry found (its position stands for it),
\* or '0.0.0.0', which Undefined stands for.
Ip(L) == GetInterface(L)

\* mac()
Mac(L) == IF GetInterface(L) = Undefined THEN "00:00:00:00" ELSE L[GetInterface(L)].mac

\* The ports config.getSection('web').servers.http.port may hold.
HttpPorts == {4200, 8080}

\* port: '4200' of the service record.
AdvertisedPort == 4200

\* The names a question of an inbound query packet may carry: "fixed" is
\* '_poolcontroller._tcp.local'.
QuestionNames == {"fixed", "other"}
QueryPackets == UNION {[1..k -> QuestionNames] : k \in 0..MaxQuestions}

\* The 'query' handler of MdnsServer.init: query.questions.forEach, one
\* respond() per question with the fixed name.
RECURSIVE QueryResponses(_, _, _)
QueryResponses(questions, L, i) ==
  IF i > Len(questions) THEN <<>>
  ELSE (IF questions[i] = "fixed"
        THEN <<[question |-> i, address |-> Ip(L), port |-> AdvertisedPort]>>
        ELSE <<>>) \o QueryResponses(questions, L, i + 1)

\* webApp.ip() and webApp.mac() on the host of call.
AddressCall ==
  /\ call.op = "host"
  /\ call' = [call EXCEPT !.op = "address", !.found = GetInterface(call.nics),
                          !.ip = Ip(call.nics), !.mac = Mac(call.nics)]
  /\ UNCHANGED <<regVars, mdnsLog, merge, rem>>

\* A query packet arrives at the discovery server of the host of call.
MdnsQuery(questions) ==
  /\ call.op = "host"
  /\ call' = [call EXCEPT !.op = "query", !.questions = questions,
                          !.responses = QueryResponses(questions, call.nics, 1)]
  /\ UNCHANGED <<regVars, mdnsLog, merge, rem>>

\* --------------------------------------------------------------------- init
\* The states the file system and the persisted configuration start in.
InitialFiles ==
  {F \in [InterfaceSet -> [exists : BOOLEAN, content : {"bad", "docA"}, mtime : {1}]] :
     /\ \A n \in InterfaceSet : ~F[n].exists => F[n].content = "bad"
     /\ F["ifB"].exists
     /\ F["ifB"].content = "bad" => F["ifA"].content = "docA"}

\* http and ifA carry a persisted id, mdns and ifB have none yet.
InitialCfgs ==
  {C \in [Entries -> [uuid : 0..Cardinality(Entries), enabled : BOOLEAN]] :
     /\ \A e \in {"http", "ifA"} : C[e].uuid = PersistedId(e)
     /\ \A e \in {"mdns", "ifB"} : C[e].uuid = NoId
     /\ C["http"].enabled /\ C["ifA"].enabled
     /\ ~(C["mdns"].enabled /\ C["ifB"].enabled)}

\* Start-up configurations with a single bridge enabled.
BindingCfgs ==
  {C \in [Entries -> [uuid : 0..Cardinality(Entries), enabled : BOOLEAN]] :
     /\ \A e \in Entries : C[e].uuid = PersistedId(e)
     /\ C["http"].enabled /\ ~C["mdns"].enabled
     /\ C["ifA"].enabled # C["ifB"].enabled}

\* Start-up with the http bridge ifB as the only interface, its binding file
\* with or without a discovery name.
DiscoveryCfgs ==
  {C \in [Entries -> [uuid : 0..Cardinality(Entries), enabled : BOOLEAN]] :
     /\ \A e \in Entries : C[e].uuid = PersistedId(e)
     /\ C["http"].enabled /\ ~C["ifA"].enabled}

DiscoveryFiles ==
  {F \in [InterfaceSet -> [exists : BOOLEAN, content : {"bad", "docA", "docB"}, mtime : {1}]] :
     /\ ~F["ifA"].exists /\ F["ifA"].content = "bad"
     /\ F["ifB"].exists /\ F["ifB"].content # "bad"}

\* No call recorded.
NoCall == [op |-> "none"]

\* The state after construction (private _servers = []), before WebServer.init.
ConstructedRegistry(cfgs, fileSets) ==
  /\ cfg \in cfgs
  /\ uuidCtr = FirstFreshId
  /\ handles = <<>>
  /\ servers = <<>>
  /\ files \in fileSets
  /\ notifs = <<>>
  /\ tasks = <<>>
  /\ stopTask = Idle
  /\ counts = [init |-> 0, calls |-> 0]
  /\ notifLog = [n \in InterfaceSet |-> <<NoNotif, NoNotif>>]
  /\ lastOp = [op |-> "none"]

Constructed(cfgs, fileSets) ==
  /\ ConstructedRegistry(cfgs, fileSets)
  /\ mdnsLog = [op |-> "none"]
  /\ merge = NoMerge
  /\ rem = NoRem
  /\ call = NoCall

Init == Constructed(InitialCfgs, InitialFiles)
InitBinding == Constructed(BindingCfgs, InitialFiles)
InitDiscovery == Constructed(DiscoveryCfgs, DiscoveryFiles)

\* Start-up with the servers only, the HTTP server enabled or not.
HandshakeCfgs ==
  {C \in [Entries -> [uuid : 0..Cardinality(Entries), enabled : BOOLEAN]] :
     /\ \A e \in Entries : C[e].uuid = PersistedId(e)
     /\ \A e \in Entries \ {"http"} : ~C[e].enabled}

InitHandshake == Constructed(HandshakeCfgs, DiscoveryFiles)

\* A base context and a parsed binding file about to be merged.
InitMerge ==
  /\ ConstructedRegistry(BindingCfgs, InitialFiles)
  /\ mdnsLog = [op |-> "none"]
  /\ rem = NoRem
  /\ call = NoCall
  /\ \E base \in OptionMaps, doc \in MergeDocs :
       merge = [op |-> "input", base |-> base, doc |-> doc, out |-> NewBindings]

Next ==
  \/ WebInit
  \/ \E n \in InterfaceSet, b \in BOOLEAN : UpdateBegin(n, b)
  \/ \E k \in 1..MaxCalls : UpdateResume(k)
  \/ StopBegin
  \/ StopResume
  \/ \E chan \in BOOLEAN : Emit(chan)

Spec == Init /\ [][Next]_vars

\* The bridges after start-up, with their binding files changing under them.
NextBinding ==
  \/ (counts.init = 0 /\ WebInit)
  \/ \E n \in InterfaceSet, c \in FileContents, m \in 1..MaxMtime : FileWrite(n, c, m)
  \/ \E n \in InterfaceSet : FileDelete(n)
  \/ \E n \in InterfaceSet : WatchDuplicate(n)
  \/ WatchChange

SpecBinding == InitBinding /\ [][NextBinding]_vars

\* The discovery server after start-up: queries registered, packets answered.
NextDiscovery ==
  \/ (counts.init = 0 /\ WebInit)
  \/ \E q \in QueryPool : QueryMdnsCall(q)
  \/ \E m \in DOMAIN handles, packet \in Packets : MdnsResponse(m, packet)

SpecDiscovery == InitDiscovery /\ [][NextDiscovery]_vars

\* The peer bridge after start-up, its socket and its handshake.
NextHandshake ==
  \/ (counts.init = 0 /\ WebInit)
  \/ \E enabled \in BOOLEAN : RemInit(enabled)
  \/ RemStop
  \/ SockConnect
  \/ SockDisconnect
  \/ InitConnection
  \/ \E result \in Results : CheckConnectionReply(result)
  \/ CheckEmitStart
  \/ \E id \in ConnectionIds : CheckEmitAck(id)
  \/ \E result \in Results : CheckEmitReply(result)
  \/ CheckEmitTimeout

SpecHandshake == InitHandshake /\ [][NextHandshake]_vars

\* The same with the scheduling the runtime gives: a timer that is armed
\* expires, and a request that was sent returns (sendClientRequest bounds the
\* wait with req.setTimeout).  The socket and the acknowledgment are the
\* peer's to give or withhold.
HandshakeFairness ==
  /\ WF_vars(InitConnection)
  /\ WF_vars(\E result \in Results : CheckConnectionReply(result))
  /\ WF_vars(CheckEmitStart)
  /\ WF_vars(\E result \in Results : CheckEmitReply(result))
  /\ WF_vars(CheckEmitTimeout)

SpecHandshakeLive == SpecHandshake /\ HandshakeFairness

\* The servers after start-up, their listening sockets bound or refused.
NextListen ==
  \/ (counts.init = 0 /\ WebInit)
  \/ \E h \in DOMAIN handles : ListenBound(h)
  \/ \E h \in DOMAIN handles, fatal \in BOOLEAN : ListenError(h, fatal)
  \/ \E chan \in BOOLEAN : Emit(chan)

SpecListen == Init /\ [][NextListen]_vars

\* A handle of any variant in any state, about to be stopped.
InitStop ==
  /\ ConstructedRegistry(BindingCfgs, InitialFiles)
  /\ mdnsLog = [op |-> "none"]
  /\ merge = NoMerge
  /\ rem = NoRem
  /\ \E h \in StopHandles :
       call = [op |-> "handle", h |-> h, stops |-> 0, logged |-> FALSE,
               raised |-> FALSE, once |-> h]

NextStop == \E again \in BOOLEAN : StopCall(again)

SpecStop == InitStop /\ [][NextStop]_vars

\* A host with its network interfaces and its configured HTTP port.
InitAddress ==
  /\ ConstructedRegistry(HandshakeCfgs, DiscoveryFiles)
  /\ mdnsLog = [op |-> "none"]
  /\ merge = NoMerge
  /\ rem = NoRem
  /\ \E L \in NicLists, port \in HttpPorts :
       call = [op |-> "host", nics |-> L, port |-> port, found |-> Undefined,
               ip |-> Undefined, mac |-> "00:00:00:00",
               questions |-> <<>>, responses |-> <<>>]

NextAddress ==
  \/ AddressCall
  \/ \E questions \in QueryPackets : MdnsQuery(questions)

SpecAddress == InitAddress /\ [][NextAddress]_vars

\* loadBindings applied to every base context and binding file.
NextMerge == MergeLoad

SpecMerge == InitMerge /\ [][NextMerge]_vars

\* ================================================================ properties
Registered == {servers[i] : i \in 1..Len(servers)} \ {Undefined}
RunningRegistered == {h \in Registered : handles[h].isRunning}
\* The handles with id u that were initialised enabled and not stopped since.
LiveWith(u) == {h \in 1..Len(handles) : handles[h].uuid = u /\ handles[h].live}
InterfaceIds == {cfg[n].uuid : n \in InterfaceSet} \ {NoId}

\* C1: after any sequence of updateServerInterface calls that follows start-up,
\* at most one handle per generatedId is live (initialised with enabled = true
\* and not stopped since), registered or not.
C1_AtMostOneLivePerId ==
  counts.init <= 1 => \A u \in InterfaceIds : Cardinality(LiveWith(u)) <= 1

\* C2: when updateServerInterface(cfg) with cfg.enabled = false has completed
\* (no other call in flight), findServerByGuid(cfg.uuid) finds nothing and no
\* handle with that id is still live.
C2_DisabledLeavesNoHandle ==
  (counts.init <= 1 /\ tasks = <<>> /\ lastOp.op = "update" /\ ~lastOp.enabled)
    => /\ FindServerByGuid(servers, handles, lastOp.uuid).id = Undefined
       /\ LiveWith(lastOp.uuid) = {}

\* The handles one WebServer.init call has registered for entry e.
CreatedFor(e) == {h \in lastOp.created \cap Registered : handles[h].name = e}

\* C3 as claimed: after WebServer.init no entry with enabled = false, server or
\* interface, has a handle in the registry.
C3_NoHandleForDisabledEntry ==
  lastOp.op = "init" => \A e \in Entries \ lastOp.enabled : CreatedFor(e) = {}

\* C3 as amended: after WebServer.init a disabled interface entry has no
\* handle; a disabled server entry has one registered handle, which is not
\* running; every entry has its generatedId.
C3_DisabledInterfaceSkippedServerRegistered ==
  lastOp.op = "init" =>
    /\ \A n \in InterfaceSet \ lastOp.enabled :
         /\ CreatedFor(n) = {}
         /\ counts.init = 1 => ~\E h \in Registered : handles[h].name = n
    /\ \A s \in ServerSet \ lastOp.enabled :
         /\ Cardinality(CreatedFor(s)) = 1
         /\ \A h \in CreatedFor(s) : ~handles[h].isRunning /\ ~handles[h].live
    /\ \A e \in Entries : cfg[e].uuid # NoId

C3_Witness ==
  /\ lastOp.op = "init"
  /\ counts.init = 1
  /\ InterfaceSet \ lastOp.enabled # {}
  /\ ServerSet \ lastOp.enabled # {}
  /\ InterfaceSet \cap lastOp.enabled # {}

\* C4: no step changes a generatedId that an entry already has, and a step
\* draws exactly as many fresh ids as it fills entries that had none.
C4_IdNeverRegenerated ==
  [][/\ \A e \in Entries : cfg[e].uuid # NoId => cfg'[e].uuid = cfg[e].uuid
     /\ uuidCtr' - uuidCtr =
          Cardinality({e \in Entries : cfg[e].uuid = NoId /\ cfg'[e].uuid # NoId})]_vars

\* A second WebServer.init and a later update have run over entries whose ids
\* were partly persisted and partly generated by the first init.
C4_Witness ==
  /\ counts.init >= 2
  /\ lastOp.op = "update"
  /\ uuidCtr = FirstFreshId + 2
  /\ \A e \in Entries : cfg[e].uuid # NoId

\* C5: in one WebServer.stopAsync call, of two handles that are both stopped
\* the one registered later (in the higher slot) is stopped first.
C5_StopsInReverseOrder ==
  lastOp.op = "stop" =>
    \A i, j \in DOMAIN lastOp.log :
      (/\ lastOp.log[i].what = "stopped" /\ lastOp.log[j].what = "stopped"
       /\ lastOp.log[i].slot < lastOp.log[j].slot) => j < i

\* C6: a completed WebServer.stopAsync call has gone through every key the
\* array had when it started, also past the slots at which stopping raised:
\* each slot was stopped, raised and was caught, or had left the array.
C6_StopIsBestEffort ==
  lastOp.op = "stop" =>
    /\ {lastOp.log[i].slot : i \in DOMAIN lastOp.log} = 1..lastOp.n
    /\ \A i \in DOMAIN lastOp.log :
         lastOp.log[i].what = "stopped" <=> lastOp.log[i].handle # Undefined

\* A call in which one slot raised and a later slot's handle was stopped.
C6_Witness ==
  /\ lastOp.op = "stop"
  /\ \E i, j \in DOMAIN lastOp.log :
       i < j /\ lastOp.log[i].what = "raised" /\ lastOp.log[j].what = "stopped"

\* C7: an emit reaches every registered handle that reports isRunning, and
\* delivers through no handle that does not report isRunning.
C7_EmitReachesEveryRunningHandle ==
  lastOp.op = "emit" =>
    /\ RunningRegistered \subseteq lastOp.invoked
    /\ \A h \in lastOp.delivered : handles[h].isRunning

\* C8: when a handle fails while handling an emit, the failure does not leave
\* WebServer.emitToClients and every other running handle receives the event.
C8_EmitFailureIsContained ==
  (lastOp.op = "emit" /\ lastOp.failed # {}) =>
    /\ ~lastOp.raised
    /\ (RunningRegistered \ lastOp.failed) \subseteq lastOp.invoked

\* The change notifications that read the file's modification time.
ObservedTime(e) ==
  e.handle # Undefined /\ e.what \in {"sameTime", "loaded", "loadFailed", "noFile"}
RanLoad(e) == e.what \in {"loaded", "loadFailed", "noFile"}
SameTimePair(p, q) ==
  ObservedTime(p) /\ ObservedTime(q) /\ p.handle = q.handle /\ p.seen = q.seen

C10_FailedReloadKeepsBridgeActive ==
  \A n \in InterfaceSet :
    (/\ notifLog[n][2].handle # Undefined
     /\ notifLog[n][2].hadBinding /\ notifLog[n][2].ranBefore
     /\ notifLog[n][2].what \in {"loadFailed", "statThrows"})
       => ~notifLog[n][2].changed /\ notifLog[n][2].dispatches

\* C11: when init returns on a bridge whose first load of the binding file
\* failed (the file is missing or malformed, so no binding is installed), the
\* handle does not report isRunning.
C11_FirstLoadFailureNotRunning ==
  lastOp.op = "init" =>
    \A h \in lastOp.created :
      (handles[h].variant \in BridgeVariants /\ handles[h].bindings = NoBinding)
        => ~handles[h].isRunning

\* The answers of the packet handled last that carry the name of a query that
\* was pending when the packet arrived.
Matches == {j \in DOMAIN mdnsLog.packet :
              \E i \in DOMAIN mdnsLog.before : mdnsLog.before[i].name = mdnsLog.packet[j].name}

C14_MatchRemovesExactlyOne ==
  mdnsLog.op = "response" =>
    /\ Matches = {} => mdnsLog.after = mdnsLog.before
    /\ (Len(mdnsLog.packet) = 1 /\ Matches # {})
         => Len(mdnsLog.after) = Len(mdnsLog.before) - 1

\* C15: for one packet each pending query raises at most one 'mdnsResponse',
\* on the first answer with its name; one pending query and one matching
\* answer raise exactly one.
C15_OneNotificationPerQuery ==
  mdnsLog.op = "response" =>
    /\ \A i \in DOMAIN mdnsLog.before :
         LET mine == {k \in DOMAIN mdnsLog.notes : mdnsLog.notes[k].query = i}
         IN  /\ Cardinality(mine) <= 1
             /\ \A k \in mine :
                  \A j \in Matches :
                    mdnsLog.packet[j].name = mdnsLog.before[i].name
                      => mdnsLog.notes[k].answer <= j
    /\ (Len(mdnsLog.before) = 1 /\ Len(mdnsLog.packet) = 1 /\ Matches # {})
         => Len(mdnsLog.notes) = 1

\* C13: after a successful load, every base option the file does not set is
\* found under the binding's context.options, and an option both set has the
\* file's value there.
C13_BaseOptionsUnderContextOptions ==
  merge.op = "loaded" =>
    \A k \in OptionNames :
      /\ (merge.base[k] # Absent /\ merge.doc.context.options[k] = Absent)
           => merge.out.context.options[k] = merge.base[k]
      /\ merge.doc.context.options[k] # Absent
           => merge.out.context.options[k] = merge.doc.context.options[k]

\* The outcome of the handshake: Established, Failed, or not settled.
Established == rem.promise = "resolved"
Failed      == rem.promise = "rejected"

\* C16: once the registration request has returned without success (an error
\* status, or no response), the handshake is Failed, and no acknowledgment
\* listener is registered and no verification request sent.
C16_Phase1FailureFailsWithoutPhase2 ==
  (rem.pc \notin {"idle", "startDelay", "phase1"} /\ Fails1(rem.result1.code))
    => Failed /\ ~rem.listened /\ rem.verifications = 0

\* C17: once the acknowledgment has arrived before the secondary timer expired,
\* the handshake is Established, whatever the verification request returned
\* and whenever.
C17_AckInTimeEstablishes ==
  rem.ackInTime => Established

\* C18: when the secondary timer has expired with no acknowledgment and no
\* successful verification reply before it, the handshake is Failed with the
\* communications-check error.
C18_TimeoutFailsWithCommCheck ==
  (rem.tmr = "fired" /\ ~rem.ackInTime /\ ~rem.verifyOkFirst)
    => Failed /\ rem.error = "commcheck"

\* C19: from the moment the verification request returns success before any
\* acknowledgment and before the secondary timer expires, the handshake is
\* Established and the timer is cleared, so it never expires.
C19_VerifySuccessEstablishes ==
  rem.verifyOkFirst => Established /\ rem.tmr = "cleared"

\* The verification succeeded first and the acknowledgment came after it.
C19_Witness ==
  rem.verifyOkFirst /\ rem.acked /\ Established

\* C20: the peer bridge reports isConnected only when its handshake has
\* resolved Established.
C20_ConnectedOnlyWhenEstablished ==
  IsConnected(rem) = "true" => Established

\* C21: after a handshake attempt that failed in Phase 2 the bridge holds no
\* connection id from that attempt.
C21_NoConnectionIdAfterPhase2Failure ==
  (Failed /\ rem.pc = "phase2") => rem.remoteConnectionId = NoId

\* C22: one init of an enabled peer bridge sends at most one registration
\* request, also after the attempt has failed and the socket has reconnected;
\* a disabled bridge sends none.
C22_OneRegistrationPerInit == rem.registrations <= rem.inits

\* The attempt has failed and the socket has reconnected afterwards.
C22_Witness ==
  Failed /\ rem.reconnected /\ rem.sock = "up" /\ rem.registrations = 1

\* The phase of the attempt as a rank: Idle, RestVerified, settled.
PhaseRank(r) ==
  IF r.promise \in {"resolved", "rejected"} THEN 3
  ELSE IF r.pc \in {"settle", "phase2"} THEN 1 ELSE 0

\* C23: no step moves the phase of the attempt backwards, and once the attempt
\* has resolved Established or Failed no step changes the outcome or its error.
C23_OutcomeSettledOnce ==
  [][/\ PhaseRank(rem') >= PhaseRank(rem)
     /\ rem.promise \in {"resolved", "rejected"}
          => rem'.promise = rem.promise /\ rem'.error = rem.error]_vars

\* The timer has failed the attempt; the verification reply and the
\* acknowledgment have both come afterwards.
C23_Witness ==
  Failed /\ rem.error = "commcheck" /\ rem.verify = "replied" /\ rem.acked

\* C24: an acknowledgment that establishes the handshake belongs to the
\* connection id obtained in Phase 1.
C24_AckKeyedByConnectionId ==
  rem.resolvedBy = "ack" => rem.ackId = rem.remoteConnectionId

\* C25: after the listening port of an HTTP server could not be bound, that
\* handle does not report isRunning, and every other handle that was running
\* is still registered and running.
C25_BindFailureStopsOnlyThatHandle ==
  lastOp.op = "listenError" =>
    /\ ~handles[lastOp.handle].isRunning
    /\ lastOp.running \subseteq RunningRegistered

\* C26: a stopAsync call on a handle of any variant, initialised or not,
\* stopped before or not, raises nothing, and after every further call the
\* handle is in the state the first call left it in.
C26_StopNeverRaisesAndIsIdempotent ==
  call.op = "stop" => ~call.raised /\ call.h = call.once

\* The SSDP server was never started: both calls fail inside and log.
C26_Witness ==
  /\ call.op = "stop" /\ call.stops >= 2
  /\ call.h.variant = "ssdp" /\ call.h.server = "undefined" /\ call.logged

\* C27: between two callbacks no load is executing, so no bridge has its
\* reload-in-progress flag set; and a change notification that finds the flag
\* clear and a modification time other than the recorded one runs loadBindings.
C27_LoadingFlagClearBetweenLoads ==
  /\ \A h \in DOMAIN handles : ~handles[h].isLoading
  /\ \A n \in InterfaceSet :
       notifLog[n][2].handle # Undefined => notifLog[n][2].what # "busy"

\* C28: for every inbound query packet the discovery server sends one response
\* per question with the fixed name and none for any other; each response
\* carries the resolved self-IP and the port the HTTP server is configured on.
C28_QueryAnsweredWithIpAndHttpPort ==
  call.op = "query" =>
    /\ {call.responses[j].question : j \in DOMAIN call.responses}
         = {i \in DOMAIN call.questions : call.questions[i] = "fixed"}
    /\ \A j \in DOMAIN call.responses :
         /\ call.responses[j].address = Ip(call.nics)
         /\ call.responses[j].port = call.port

\* The addresses the claim lets getInterface return: not internal, IPv4, and
\* a hardware address that is not all-zero.
Qualifies(a) == ~a.internal /\ a.family = "IPv4" /\ a.mac # "zero"

\* C29: getInterface returns the first address that qualifies; when none
\* does, ip() is '0.0.0.0' and mac() is '00:00:00:00'.
C29_FirstQualifyingAddress ==
  call.op = "address" =>
    LET Q == {i \in DOMAIN call.nics : Qualifies(call.nics[i])}
    IN  IF Q = {}
        THEN call.found = Undefined /\ call.ip = Undefined /\ call.mac = "00:00:00:00"
        ELSE /\ call.found \in Q
             /\ \A i \in Q : call.found <= i

\* C30: when WebServer.stopAsync has completed, no handle it stopped reports
\* isRunning, and an emit handed to such a handle is not delivered.
C30_StoppedHandleNotRunning ==
  lastOp.op = "stop" =>
    \A i \in DOMAIN lastOp.log :
      lastOp.log[i].what = "stopped" =>
        /\ ~handles[lastOp.log[i].handle].isRunning
        /\ HandleEmitToClients(handles[lastOp.log[i].handle]) # "delivered"

\* C31: when no registry call is suspended, every handle that was initialised
\* with enabled = true and not stopped since is an element of the registry.
C31_LiveHandleIsRegistered ==
  (tasks = <<>> /\ ~stopTask.active) =>
    \A h \in DOMAIN handles : handles[h].live => h \in Registered

\* C32: every element of the registry's collection is a handle, never an
\* empty slot, so a lookup that reads a member of each element does not raise.
C32_NoEmptySlot ==
  /\ \A i \in DOMAIN servers : servers[i] # Undefined
  /\ \A e \in Entries : ~FindServer(servers, handles, e).throws

\* C33: every handshake attempt that has started eventually resolves
\* Established or Failed.
C33_AttemptEventuallyResolves ==
  (rem.promise = "pending") ~> (rem.promise \in {"resolved", "rejected"})

\* C34: once stopAsync has completed on the peer bridge no step of its
\* handshake runs: no registration or verification request is sent, no
\* acknowledgment listener is registered and remoteConnectionId is not set.
C34_NoHandshakeStepAfterStop == rem.lateSteps = {}

\* C35: when start-up was followed by exactly two updateServerInterface calls
\* for one id that overlapped, and both have completed, a handle with that id
\* is live if and only if the config submitted last has enabled = true.
C35_OverlappingUpdatesLastConfigWins ==
  (/\ counts.init = 1 /\ counts.calls = 3 /\ tasks = <<>> /\ ~stopTask.active
   /\ lastOp.op = "update" /\ lastOp.overlapped)
    => \A n \in InterfaceSet :
         cfg[n].uuid = lastOp.uuid => (LiveWith(lastOp.uuid) # {} <=> cfg[n].enabled)

====
